---------------------------- MODULE Spec2Model ----------------------------
(***************************************************************************)
(* QuickRun: command resolution and launch (src-tauri/src/runner.rs) and   *)
(* update discovery (src-tauri/src/updater.rs).                            *)
(*                                                                         *)
(* A Rust string is a sequence of one-character strings, so that           *)
(* contains, split, trim, strip_prefix and format! are computed on the     *)
(* characters.  A u32 is its canonical decimal numeral (a sequence of      *)
(* digits without leading zeros): the values up to 4294967295 are out of   *)
(* the range of TLC's integers, their numerals are not.                    *)
(***************************************************************************)
EXTENDS Integers, Sequences, FiniteSets, TLC

VARIABLES
    path_var,     \* the PATH environment variable: unset, or its text
    pathext_var,  \* the PATHEXT environment variable: unset, or its text
    fs,           \* the filesystem: what each path names (none, file, dir)
    current_version, \* CARGO_PKG_VERSION of the running build
    call,         \* the last call made into the program, with its inputs
    ret,          \* what that call returned
    trace         \* the environment reads, file tests and spawns it made

vars == <<path_var, pathext_var, fs, current_version, call, ret, trace>>

----------------------------------------------------------------------------
(* Bounds of the model.                                                    *)

\* Most directories in a PATH value.
MaxDirs == 2
\* Longest input handed to is_explicit_path on its own.
MaxLen == 3
\* Most dot-separated components in a version string handed to parse_semver.
MaxParts == 4
\* Assets in a release.
MaxAssets == 3

----------------------------------------------------------------------------
(* Rust values.                                                            *)

None == [tag |-> "None"]
Some(v) == [tag |-> "Some", val |-> v]
Ok(v) == [tag |-> "Ok", val |-> v]
Err(m) == [tag |-> "Err", msg |-> m]
Unit == <<>>
\* A call that has not returned, and one that returned v.
Pending == [tag |-> "Pending"]
Returned(v) == [tag |-> "Returned", val |-> v]

\* format!(fmt, arg): the literal and the argument spliced into it.
Format(fmt, arg) == [fmt |-> fmt, arg |-> arg]
\* A literal message, s.to_string().
Literal(s) == [fmt |-> s, arg |-> <<>>]

Unset == [set |-> FALSE, val |-> <<>>]
SetTo(s) == [set |-> TRUE, val |-> s]

\* A trace event.
Event(ev, arg) == [ev |-> ev, arg |-> arg]

----------------------------------------------------------------------------
(* str operations.                                                         *)

\* str::contains(char)
Contains(s, c) == \E i \in 1..Len(s) : s[i] = c

RECURSIVE SplitFrom(_, _, _)
SplitFrom(s, sep, cur) ==
    IF s = <<>> THEN <<cur>>
    ELSE IF Head(s) = sep THEN <<cur>> \o SplitFrom(Tail(s), sep, <<>>)
    ELSE SplitFrom(Tail(s), sep, Append(cur, Head(s)))

\* str::split(char).collect(): never empty, "" splits into [""].
Split(s, sep) == SplitFrom(s, sep, <<>>)

WhiteSpace == {" ", "\t"}

\* Mutant of Trim: the input is used untrimmed.
TrimNot(s) == s

RECURSIVE TrimStart(_)
TrimStart(s) ==
    IF s # <<>> /\ Head(s) \in WhiteSpace THEN TrimStart(Tail(s)) ELSE s

RECURSIVE TrimEnd(_)
TrimEnd(s) ==
    IF s # <<>> /\ s[Len(s)] \in WhiteSpace
    THEN TrimEnd(SubSeq(s, 1, Len(s) - 1)) ELSE s

\* str::trim()
Trim(s) == TrimEnd(TrimStart(s))

\* The texts of parts joined by sep (the inverse of Split; builds inputs).
RECURSIVE JoinWith(_, _)
JoinWith(parts, sep) ==
    IF parts = <<>> THEN <<>>
    ELSE IF Len(parts) = 1 THEN parts[1]
    ELSE parts[1] \o <<sep>> \o JoinWith(Tail(parts), sep)

\* The sequences over S of length lo..hi.
SeqsOf(S, lo, hi) == UNION {[1..k -> S] : k \in lo..hi}

----------------------------------------------------------------------------
(* runner.rs                                                               *)

\* Path::is_file(): the path names an existing regular file.
is_file(files, path) == path \in DOMAIN files /\ files[path] = "file"

\* std::path::MAIN_SEPARATOR on the target platform (Windows).
MAIN_SEPARATOR == "\\"
Separators == {"\\", "/"}

\* PathBuf::join for a relative name without root or prefix: a separator is
\* added unless the directory is empty or already ends with one.
join(dir, name) ==
    IF dir # <<>> /\ dir[Len(dir)] \notin Separators
    THEN dir \o <<MAIN_SEPARATOR>> \o name
    ELSE dir \o name

\* env::split_paths: the text between the ';' separators, empty entries kept.
split_paths(text) == Split(text, ";")

\* ".COM;.EXE;.BAT;.CMD"
DefaultPathExt ==
    <<".", "C", "O", "M", ";", ".", "E", "X", "E", ";",
      ".", "B", "A", "T", ";", ".", "C", "M", "D">>

\* Mutant of is_explicit_path: the volume separator is not looked for.
is_explicit_path_no_colon(input) ==
    Contains(input, "\\") \/ Contains(input, "/")

is_explicit_path(input) ==
    Contains(input, "\\") \/ Contains(input, "/") \/ Contains(input, ":")

\* Mutant of TryExtensions: the loop does not stop at its first hit, so the
\* last matching extension of the directory wins.
RECURSIVE TryExtensionsNoBreak(_, _, _, _)
TryExtensionsNoBreak(files, dir, command, extensions) ==
    IF extensions = <<>> THEN [ret |-> None, trace |-> <<>>]
    ELSE LET candidate == join(dir, command \o Head(extensions))
             probe == <<Event("is_file", candidate)>>
             rest == TryExtensionsNoBreak(files, dir, command, Tail(extensions))
         IN  IF is_file(files, candidate) /\ rest.ret.tag = "None"
             THEN [ret |-> Some(candidate), trace |-> probe \o rest.trace]
             ELSE [ret |-> rest.ret, trace |-> probe \o rest.trace]

\* The inner loop of resolve_on_path: each extension in order, in one
\* directory; the candidates tested and the first that is a file.
RECURSIVE TryExtensions(_, _, _, _)
TryExtensions(files, dir, command, extensions) ==
    IF extensions = <<>> THEN [ret |-> None, trace |-> <<>>]
    ELSE LET candidate == join(dir, command \o Head(extensions))
             probe == <<Event("is_file", candidate)>>
         IN  IF is_file(files, candidate)
             THEN [ret |-> Some(candidate), trace |-> probe]
             ELSE LET rest == TryExtensions(files, dir, command, Tail(extensions))
                  IN  [ret |-> rest.ret, trace |-> probe \o rest.trace]

\* Mutant of SearchDirs: a command with an extension whose exact name is
\* not in the directory falls back to the extension search there.
RECURSIVE SearchDirsFallBack(_, _, _, _, _)
SearchDirsFallBack(files, paths, command, extensions, has_extension) ==
    IF paths = <<>> THEN [ret |-> None, trace |-> <<>>]
    ELSE LET dir == Head(paths)
             candidate == join(dir, command)
             byExt == TryExtensions(files, dir, command, extensions)
             here == IF has_extension /\ is_file(files, candidate)
                     THEN [ret |-> Some(candidate),
                           trace |-> <<Event("is_file", candidate)>>]
                     ELSE IF has_extension
                     THEN [ret |-> byExt.ret,
                           trace |-> <<Event("is_file", candidate)>>
                                        \o byExt.trace]
                     ELSE byExt
         IN  IF here.ret.tag = "Some" THEN here
             ELSE LET rest == SearchDirsFallBack(files, Tail(paths), command,
                                                 extensions, has_extension)
                  IN  [ret |-> rest.ret, trace |-> here.trace \o rest.trace]

\* The outer loop of resolve_on_path: each directory in order.
RECURSIVE SearchDirs(_, _, _, _, _)
SearchDirs(files, paths, command, extensions, has_extension) ==
    IF paths = <<>> THEN [ret |-> None, trace |-> <<>>]
    ELSE LET dir == Head(paths)
             here == IF has_extension
                     THEN LET candidate == join(dir, command)
                          IN  [ret |-> IF is_file(files, candidate)
                                       THEN Some(candidate) ELSE None,
                               trace |-> <<Event("is_file", candidate)>>]
                     ELSE TryExtensions(files, dir, command, extensions)
         IN  IF here.ret.tag = "Some" THEN here
             ELSE LET rest == SearchDirs(files, Tail(paths), command,
                                         extensions, has_extension)
                  IN  [ret |-> rest.ret, trace |-> here.trace \o rest.trace]

EnvPathExt == <<"P", "A", "T", "H", "E", "X", "T">>
EnvPath == <<"P", "A", "T", "H">>

resolve_on_path(penv, eenv, files, command) ==
    LET pathext == IF eenv.set THEN eenv.val ELSE DefaultPathExt
        extensions == Split(pathext, ";")
        reads == <<Event("env_var", EnvPathExt), Event("env_var", EnvPath)>>
    IN  IF ~penv.set THEN [ret |-> None, trace |-> reads]
        ELSE LET has_extension == Contains(command, ".")
                 found == SearchDirs(files, split_paths(penv.val), command,
                                     extensions, has_extension)
             IN  [ret |-> found.ret, trace |-> reads \o found.trace]

\* What Command::new(path).spawn() can answer: started, or an io::Error,
\* whose text is kept as one piece.
SpawnReasons ==
    {<<"Access is denied.">>, <<"The system cannot find the file specified.">>}
SpawnOutcomes == {Ok(Unit)} \cup {Err(r) : r \in SpawnReasons}

\* Mutant of spawn_process: the spawn's error is dropped.
spawn_process_swallow(path, outcome) ==
    [ret |-> Ok(Unit), trace |-> <<Event("spawn", path)>>]

\* spawn_process: one spawn, its error wrapped.
spawn_process(path, outcome) ==
    [ret |-> IF outcome.tag = "Err"
             THEN Err(Format("Failed to spawn process: {}", outcome.msg))
             ELSE Ok(Unit),
     trace |-> <<Event("spawn", path)>>]

\* Mutant of resolve_explicit: a path that is not a file is tried again
\* with ".EXE" appended.
resolve_explicit_ext(files, input) ==
    IF is_file(files, input)
    THEN [ret |-> Ok(input), trace |-> <<Event("is_file", input)>>]
    ELSE [ret |-> IF is_file(files, input \o <<".", "E", "X", "E">>)
                  THEN Ok(input \o <<".", "E", "X", "E">>)
                  ELSE Err(Format("File not found: {}", input)),
          trace |-> <<Event("is_file", input),
                      Event("is_file", input \o <<".", "E", "X", "E">>)>>]

\* Mutant of resolve_explicit: Path::exists() in place of Path::is_file().
resolve_explicit_exists(files, input) ==
    [ret |-> IF input \in DOMAIN files /\ files[input] # "none"
             THEN Ok(input)
             ELSE Err(Format("File not found: {}", input)),
     trace |-> <<Event("is_file", input)>>]

\* run_command's explicit-path branch: the input itself, tested once.
resolve_explicit(files, input) ==
    [ret |-> IF is_file(files, input)
             THEN Ok(input)
             ELSE Err(Format("File not found: {}", input)),
     trace |-> <<Event("is_file", input)>>]

\* run_command's bare-command branch: resolve_on_path(input).ok_or_else(..)
resolve_bare(penv, eenv, files, input) ==
    LET r == resolve_on_path(penv, eenv, files, input)
    IN  [ret |-> IF r.ret.tag = "Some" THEN Ok(r.ret.val)
                 ELSE Err(Format(
                    "'{}' is not recognized as a command or program", input)),
         trace |-> r.trace]

\* run_command after the executable path is decided: spawn, or return the
\* resolution's error.
launch(classify, resolved, outcome) ==
    IF resolved.ret.tag = "Err"
    THEN [ret |-> resolved.ret, trace |-> classify \o resolved.trace]
    ELSE LET spawned == spawn_process(resolved.ret.val, outcome)
         IN  [ret |-> spawned.ret,
              trace |-> classify \o resolved.trace \o spawned.trace]

\* run_command, given the answer the operating system gives to a spawn.
run_command(penv, eenv, files, raw, outcome) ==
    LET input == Trim(raw)
    IN  IF input = <<>>
        THEN [ret |-> Err(Literal("Please enter a command")), trace |-> <<>>]
        ELSE launch(<<Event("is_explicit_path", input)>>,
                    IF is_explicit_path(input)
                    THEN resolve_explicit(files, input)
                    ELSE resolve_bare(penv, eenv, files, input),
                    outcome)

----------------------------------------------------------------------------
(* updater.rs: versions                                                    *)

Digits == {"0", "1", "2", "3", "4", "5", "6", "7", "8", "9"}
DigitVal ==
    [c \in Digits |->
        CASE c = "0" -> 0 [] c = "1" -> 1 [] c = "2" -> 2 [] c = "3" -> 3
          [] c = "4" -> 4 [] c = "5" -> 5 [] c = "6" -> 6 [] c = "7" -> 7
          [] c = "8" -> 8 [] c = "9" -> 9]

\* u32::MAX, 4294967295
U32_MAX == <<"4", "2", "9", "4", "9", "6", "7", "2", "9", "5">>

\* The value of a digit string: its numeral without leading zeros.
RECURSIVE Canonical(_)
Canonical(digits) ==
    IF Len(digits) > 1 /\ Head(digits) = "0" THEN Canonical(Tail(digits))
    ELSE digits

\* a < b on u32 values.
NumLess(a, b) ==
    \/ Len(a) < Len(b)
    \/ /\ Len(a) = Len(b)
       /\ \E i \in 1..Len(a) :
             /\ DigitVal[a[i]] < DigitVal[b[i]]
             /\ \A k \in 1..(i - 1) : a[k] = b[k]

\* Mutant of parse_u32: a leading '-' is skipped like a leading '+'.
parse_u32_signed(src) ==
    IF src = <<>> \/ src = <<"+">> \/ src = <<"-">> THEN None
    ELSE LET digits == IF Head(src) \in {"+", "-"} THEN Tail(src) ELSE src
         IN  IF \E i \in 1..Len(digits) : digits[i] \notin Digits THEN None
             ELSE IF NumLess(U32_MAX, Canonical(digits)) THEN None
             ELSE Some(Canonical(digits))

\* str::parse::<u32>().ok(): an optional '+', then decimal digits only; the
\* empty string, a lone sign, any other character and a value above
\* u32::MAX are errors.
parse_u32(src) ==
    IF src = <<>> \/ src = <<"+">> \/ src = <<"-">> THEN None
    ELSE LET digits == IF Head(src) = "+" THEN Tail(src) ELSE src
         IN  IF \E i \in 1..Len(digits) : digits[i] \notin Digits THEN None
             ELSE IF NumLess(U32_MAX, Canonical(digits)) THEN None
             ELSE Some(Canonical(digits))

parse_semver(version) ==
    LET parts == Split(version, ".")
    IN  IF Len(parts) # 3 THEN None
        ELSE LET major == parse_u32(parts[1])
                 minor == parse_u32(parts[2])
                 patch == parse_u32(parts[3])
             IN  IF major.tag = "None" THEN None
                 ELSE IF minor.tag = "None" THEN None
                 ELSE IF patch.tag = "None" THEN None
                 ELSE Some(<<major.val, minor.val, patch.val>>)

\* Mutant of compare_versions: the patch component is not compared.
compare_versions_no_patch(a, b) ==
    LET pa == parse_semver(a)
        pb == parse_semver(b)
    IN  IF pa.tag = "None" THEN 0
        ELSE IF pb.tag = "None" THEN 0
        ELSE IF pa.val[1] # pb.val[1]
             THEN (IF NumLess(pb.val[1], pa.val[1]) THEN 1 ELSE -1)
        ELSE IF pa.val[2] # pb.val[2]
             THEN (IF NumLess(pb.val[2], pa.val[2]) THEN 1 ELSE -1)
        ELSE 0

compare_versions(a, b) ==
    LET pa == parse_semver(a)
        pb == parse_semver(b)
    IN  IF pa.tag = "None" THEN 0
        ELSE IF pb.tag = "None" THEN 0
        ELSE IF pa.val[1] # pb.val[1]
             THEN (IF NumLess(pb.val[1], pa.val[1]) THEN 1 ELSE -1)
        ELSE IF pa.val[2] # pb.val[2]
             THEN (IF NumLess(pb.val[2], pa.val[2]) THEN 1 ELSE -1)
        ELSE IF pa.val[3] # pb.val[3]
             THEN (IF NumLess(pb.val[3], pa.val[3]) THEN 1 ELSE -1)
        ELSE 0

----------------------------------------------------------------------------
(* updater.rs: the update check                                            *)

UpperCase ==
    <<"A", "B", "C", "D", "E", "F", "G", "H", "I", "J", "K", "L", "M",
      "N", "O", "P", "Q", "R", "S", "T", "U", "V", "W", "X", "Y", "Z">>
LowerCase ==
    <<"a", "b", "c", "d", "e", "f", "g", "h", "i", "j", "k", "l", "m",
      "n", "o", "p", "q", "r", "s", "t", "u", "v", "w", "x", "y", "z">>

\* str::to_lowercase on ASCII text.
to_lowercase(s) ==
    [i \in 1..Len(s) |->
        IF \E k \in 1..26 : UpperCase[k] = s[i]
        THEN LowerCase[CHOOSE k \in 1..26 : UpperCase[k] = s[i]]
        ELSE s[i]]

\* str::contains(&str)
ContainsStr(s, pat) ==
    \E i \in 1..(Len(s) - Len(pat) + 1) : SubSeq(s, i, i + Len(pat) - 1) = pat

\* str::ends_with(&str)
ends_with(s, pat) ==
    Len(pat) <= Len(s) /\ SubSeq(s, Len(s) - Len(pat) + 1, Len(s)) = pat

\* Mutant of strip_prefix_or: every leading c is stripped.
RECURSIVE strip_prefix_all(_, _)
strip_prefix_all(s, c) ==
    IF s # <<>> /\ Head(s) = c THEN strip_prefix_all(Tail(s), c) ELSE s

\* str::strip_prefix(char).unwrap_or(s)
strip_prefix_or(s, c) == IF s # <<>> /\ Head(s) = c THEN Tail(s) ELSE s

StrQuickrun == <<"q", "u", "i", "c", "k", "r", "u", "n">>
StrExe == <<".", "e", "x", "e">>
StrPortable == <<"p", "o", "r", "t", "a", "b", "l", "e">>

\* The test of the first pass (preferred) and of the fallback pass.
asset_matches(name_lower, preferred) ==
    /\ preferred => ContainsStr(name_lower, StrQuickrun)
    /\ ends_with(name_lower, StrExe)
    /\ ~ContainsStr(name_lower, StrPortable)

\* One pass of find_installer_asset: the URL of the first asset that
\* passes the test.
RECURSIVE first_asset(_, _)
first_asset(assets, preferred) ==
    IF assets = <<>> THEN None
    ELSE IF asset_matches(to_lowercase(Head(assets).name), preferred)
         THEN Some(Head(assets).browser_download_url)
         ELSE first_asset(Tail(assets), preferred)

\* Mutant of find_installer_asset: a single pass with the fallback test.
find_installer_asset_one_pass(assets) == first_asset(assets, FALSE)

find_installer_asset(assets) ==
    IF first_asset(assets, TRUE).tag = "Some"
    THEN first_asset(assets, TRUE)
    ELSE first_asset(assets, FALSE)

\* "https://github.com/Swatto86/QuickRun/releases"
ReleasesPage ==
    <<"h", "t", "t", "p", "s", ":", "/", "/", "g", "i", "t", "h", "u", "b",
      ".", "c", "o", "m", "/", "S", "w", "a", "t", "t", "o", "8", "6", "/",
      "Q", "u", "i", "c", "k", "R", "u", "n", "/", "r", "e", "l", "e", "a",
      "s", "e", "s">>

\* StatusCode::is_success
is_success(status) == status \in 200..299

\* Result<String>::unwrap_or_default
unwrap_or_default(result) == IF result.tag = "Ok" THEN result.val ELSE <<>>

\* Mutant of no_releases: every client error counts as "no releases".
no_releases_any_4xx(status) == status \in 400..499

\* status == reqwest::StatusCode::NOT_FOUND
no_releases(status) == status = 404

\* Mutant of is_newer: any difference counts as newer.
is_newer_any(latest_version, current) ==
    compare_versions(latest_version, current) # 0

\* let is_newer = compare_versions(&latest_version, current_version) > 0
is_newer(latest_version, current) ==
    compare_versions(latest_version, current) > 0

\* check_for_update_impl, given what the release host answered.
\* response: [kind, reason, status, body, json]; body is what reading the
\* response text gives, json is the deserialized GitHubRelease, or None
\* when the body is not one.
check_for_update_impl(current, response) ==
    IF response.kind = "client_error"
    THEN Err(Format("Failed to create HTTP client: {}", response.reason))
    ELSE IF response.kind = "send_error"
    THEN Err(Format("Failed to fetch release info: {}", response.reason))
    ELSE IF ~is_success(response.status)
    THEN LET status == response.status
             body == unwrap_or_default(response.body)
         IN
         IF no_releases(status)
         THEN Ok([available |-> FALSE,
                  version |-> current,
                  body |-> <<>>,
                  current_version |-> current,
                  release_url |-> ReleasesPage,
                  installer_url |-> None])
         ELSE Err(Format("GitHub API returned error {}: {}",
                         <<status, body>>))
    ELSE IF response.json.tag = "None"
    THEN Err(Format("Failed to parse release JSON: {}", response.reason))
    ELSE LET release == response.json.val
             latest_version == strip_prefix_or(release.tag_name, "v")
         IN  Ok([available |-> is_newer(latest_version, current),
                 version |-> latest_version,
                 body |-> IF release.body.tag = "Some"
                          THEN release.body.val ELSE <<>>,
                 current_version |-> current,
                 release_url |-> release.html_url,
                 installer_url |-> find_installer_asset(release.assets)])

----------------------------------------------------------------------------
(* updater.rs: download and install                                        *)

\* env::temp_dir()
TempDir == <<"T">>

\* "quickrun-setup.exe"
DefaultInstallerName ==
    <<"q", "u", "i", "c", "k", "r", "u", "n", "-", "s", "e", "t", "u", "p", ".", "e", "x", "e">>

\* DoubleEndedIterator::next_back on the pieces of a split
next_back(pieces) ==
    IF pieces = <<>> THEN None ELSE Some(pieces[Len(pieces)])

\* Option::unwrap_or
unwrap_or(option, default) ==
    IF option.tag = "Some" THEN option.val ELSE default

\* url.split('/').next_back().unwrap_or("quickrun-setup.exe")
installer_filename(url) ==
    unwrap_or(next_back(Split(url, "/")), DefaultInstallerName)

\* download_and_launch_installer, given what the system answers at each
\* step (os: [client, send, status, bytes, write, launch, browser]).
download_and_launch_installer(url, os) ==
    LET get == <<Event("http_get", url)>>
        filename == installer_filename(url)
        installer_path == join(TempDir, filename)
        body == get \o <<Event("http_body", url)>>
        written == body \o <<Event("fs_write", installer_path)>>
        launched == written \o <<Event("launch", installer_path)>>
    IN  IF os.client.tag = "Err"
        THEN [ret |-> Err(Format("Failed to create HTTP client: {}",
                                 os.client.msg)),
              trace |-> <<>>]
        ELSE IF os.send.tag = "Err"
        THEN [ret |-> Err(Format("Failed to start download: {}", os.send.msg)),
              trace |-> get]
        ELSE IF ~is_success(os.status)
        THEN [ret |-> Err(Format("Download failed with status: {}",
                                 <<os.status>>)),
              trace |-> get]
        ELSE IF os.bytes.tag = "Err"
        THEN [ret |-> Err(Format("Failed to download file: {}", os.bytes.msg)),
              trace |-> body]
        ELSE IF os.write.tag = "Err"
        THEN [ret |-> Err(Format("Failed to write installer: {}",
                                 os.write.msg)),
              trace |-> written]
        ELSE IF os.launch.tag = "Err"
        THEN [ret |-> Err(Format("Failed to launch installer: {}",
                                 os.launch.msg)),
              trace |-> launched]
        ELSE [ret |-> Ok(Unit), trace |-> launched]

\* open_url_in_browser: cmd /C start "" url
open_url_in_browser(url, os) ==
    [ret |-> IF os.browser.tag = "Err"
             THEN Err(Format("Failed to open browser: {}", os.browser.msg))
             ELSE Ok(Unit),
     trace |-> <<Event("open_url", url)>>]

\* Mutant of download_and_install_impl: the installer's error is returned
\* instead of falling back to the browser.
download_and_install_impl_propagate(update_info, os) ==
    IF update_info.installer_url.tag = "Some"
    THEN download_and_launch_installer(update_info.installer_url.val, os)
    ELSE open_url_in_browser(update_info.release_url, os)

download_and_install_impl(update_info, os) ==
    LET attempt ==
            download_and_launch_installer(update_info.installer_url.val, os)
    IN  IF update_info.installer_url.tag = "Some" /\ attempt.ret.tag = "Ok"
        THEN [ret |-> Ok(Unit), trace |-> attempt.trace]
        ELSE LET before == IF update_info.installer_url.tag = "Some"
                           THEN attempt.trace ELSE <<>>
                 opened == open_url_in_browser(update_info.release_url, os)
             IN  [ret |-> opened.ret, trace |-> before \o opened.trace]

----------------------------------------------------------------------------
(* The launcher's environment and inputs.                                  *)

DirA == <<"A">>
DirB == <<"B">>
Cwd == <<>>
\* The entries a PATH value is made of.  A PATH that is set to the empty
\* text splits into one empty entry, the current directory.
DirNames == {DirA, DirB}

ExtExe == <<".", "E", "X", "E">>
ExtBat == <<".", "B", "A", "T">>
CmdF == <<"f">>
CmdFBat == CmdF \o ExtBat

\* PATH: unset, or up to MaxDirs entries joined by ';'.
PathVarOptions ==
    {Unset} \cup {SetTo(JoinWith(ds, ";")) : ds \in SeqsOf(DirNames, 0, MaxDirs)}

\* PATHEXT: unset, or the two extensions in either order.
PathExtOptions ==
    {Unset, SetTo(JoinWith(<<ExtExe, ExtBat>>, ";")),
            SetTo(JoinWith(<<ExtBat, ExtExe>>, ";"))}

\* The paths the filesystem is asked about.
FsPaths ==
    {join(d, CmdF \o e) : d \in {DirA, DirB}, e \in {ExtExe, ExtBat}}
        \cup {join(Cwd, CmdF \o ExtExe), join(DirA, CmdFBat \o ExtExe)}

\* One path may also name a directory.
FsKinds(p) ==
    IF p = join(DirA, CmdF \o ExtExe) THEN {"none", "file", "dir"}
    ELSE {"none", "file"}

FsOptions == {f \in [FsPaths -> {"none", "file", "dir"}] :
                \A p \in FsPaths : f[p] \in FsKinds(p)}

\* What the user types into the run dialog.
RunInputs ==
    {<<>>, <<" ">>, CmdF, <<" ">> \o CmdF \o <<"\t">>, CmdFBat,
     join(DirA, CmdF \o ExtExe) \o <<" ">>, join(DirA, CmdF),
     <<"C", ":">> \o CmdF}

\* The commands resolve_on_path is called with on its own.
BareCommands == {CmdF, CmdFBat}

NoCall == [op |-> "none", input |-> <<>>, outcome |-> Ok(Unit)]

\* The version of the build when the updater is not under study.
BuildVersion == <<"1", ".", "5", ".", "0">>

Init ==
    /\ path_var \in PathVarOptions
    /\ pathext_var \in PathExtOptions
    /\ fs \in FsOptions
    /\ current_version = BuildVersion
    /\ call = NoCall
    /\ ret = None
    /\ trace = <<>>

ResolveOnPath ==
    \E command \in BareCommands :
        \E r \in {resolve_on_path(path_var, pathext_var, fs, command)} :
            /\ call' = [op |-> "resolve_on_path", input |-> command,
                        outcome |-> Ok(Unit)]
            /\ ret' = r.ret
            /\ trace' = r.trace
            /\ UNCHANGED <<path_var, pathext_var, fs, current_version>>

\* The answers the operating system gives during run_command(input): a
\* spawn is answered only when one is made.
SpawnAnswers(input) ==
    IF \E e \in {run_command(path_var, pathext_var, fs, input, Ok(Unit))} :
            \E i \in 1..Len(e.trace) : e.trace[i].ev = "spawn"
    THEN SpawnOutcomes
    ELSE {Ok(Unit)}

RunCommand ==
    \E input \in RunInputs :
        \E outcome \in SpawnAnswers(input) :
            \E r \in {run_command(path_var, pathext_var, fs, input, outcome)} :
                /\ call' = [op |-> "run_command", input |-> input,
                            outcome |-> outcome]
                /\ ret' = r.ret
                /\ trace' = r.trace
                /\ UNCHANGED <<path_var, pathext_var, fs, current_version>>

Next == ResolveOnPath \/ RunCommand

Spec == Init /\ [][Next]_vars

----------------------------------------------------------------------------
(* The pure functions on their own: the input is drawn at the start and    *)
(* the function applied to it.                                             *)

NoFiles == [p \in FsPaths |-> "none"]

\* The characters of the inputs to is_explicit_path.
ClassifyChars == {"\\", "/", ":", ".", "f", " "}
ClassifyInputs == SeqsOf(ClassifyChars, 0, MaxLen)

\* The components version strings are made of: empty, plain, with leading
\* zero, signed, not a number, u32::MAX and u32::MAX + 1.
VersionParts ==
    {<<>>, <<"7">>, <<"0", "7">>, <<"+", "7">>, <<"-", "7">>, <<"a">>,
     U32_MAX, <<"4", "2", "9", "4", "9", "6", "7", "2", "9", "6">>}
ParseInputs ==
    {JoinWith(parts, ".") : parts \in SeqsOf(VersionParts, 1, MaxParts)}

\* The versions compare_versions is given: every triple over four numbers,
\* and strings that do not parse.
CompareParts ==
    {<<"1">>, <<"2">>, <<"1", "0">>, U32_MAX}
CompareInputs ==
    {JoinWith(parts, ".") : parts \in [1..3 -> CompareParts]}
        \cup {<<"b", "a", "d">>, <<"1", ".", "2">>,
              <<"1", ".", "2", ".", "3", ".", "4">>, <<"a", ".", "b", ".", "c">>}

\* The asset names of a release: the spec's three, an installer that does
\* not carry the product name, and a signature file of the installer.
NamePortable ==
    <<"Q", "u", "i", "c", "k", "R", "u", "n", "-", "P", "o", "r", "t", "a", "b", "l", "e", ".", "e", "x", "e">>
NameSetup ==
    <<"Q", "u", "i", "c", "k", "R", "u", "n", "-", "S", "e", "t", "u", "p", ".", "e", "x", "e">>
NameMsi ==
    <<"Q", "u", "i", "c", "k", "R", "u", "n", "-", "S", "e", "t", "u", "p", ".", "m", "s", "i">>
NameTool == <<"T", "o", "o", "l", ".", "E", "X", "E">>
NameSig ==
    <<"q", "u", "i", "c", "k", "r", "u", "n", "-", "s", "e", "t", "u", "p", ".", "e", "x", "e", ".", "s", "i", "g">>
AssetNames == {NamePortable, NameSetup, NameMsi, NameTool, NameSig}

\* The download URL of the i-th asset of a release.
UrlOf(i) == <<"u", i>>

\* The asset lists find_installer_asset is given.
AssetInputs ==
    {[i \in 1..Len(names) |->
        [name |-> names[i], browser_download_url |-> UrlOf(i)]] :
            names \in SeqsOf(AssetNames, 0, MaxAssets)}

PureCalls ==
    {[op |-> "is_explicit_path", args |-> <<s>>] : s \in ClassifyInputs}
        \cup {[op |-> "parse_semver", args |-> <<v>>] : v \in ParseInputs}
        \cup {[op |-> "compare_versions", args |-> <<a, b>>] :
                a \in CompareInputs, b \in CompareInputs}
        \cup {[op |-> "find_installer_asset", args |-> <<assets>>] :
                assets \in AssetInputs}

InitPure ==
    /\ path_var = Unset
    /\ pathext_var = Unset
    /\ fs = NoFiles
    /\ current_version = BuildVersion
    /\ call \in PureCalls
    /\ ret = Pending
    /\ trace = <<>>

IsExplicitPath ==
    /\ call.op = "is_explicit_path"
    /\ ret' = Returned(is_explicit_path(call.args[1]))
    /\ UNCHANGED <<path_var, pathext_var, fs, current_version, call, trace>>

ParseSemver ==
    /\ call.op = "parse_semver"
    /\ ret' = Returned(parse_semver(call.args[1]))
    /\ UNCHANGED <<path_var, pathext_var, fs, current_version, call, trace>>

CompareVersions ==
    /\ call.op = "compare_versions"
    /\ ret' = Returned(compare_versions(call.args[1], call.args[2]))
    /\ UNCHANGED <<path_var, pathext_var, fs, current_version, call, trace>>

FindInstallerAsset ==
    /\ call.op = "find_installer_asset"
    /\ ret' = Returned(find_installer_asset(call.args[1]))
    /\ UNCHANGED <<path_var, pathext_var, fs, current_version, call, trace>>

NextPure ==
    IsExplicitPath \/ ParseSemver \/ CompareVersions \/ FindInstallerAsset

SpecPure == InitPure /\ [][NextPure]_vars

----------------------------------------------------------------------------
(* The update check against what the release host answers.                 *)

V150 == <<"1", ".", "5", ".", "0">>
\* The version strings of builds and release tags.
VersionTexts ==
    {V150, <<"1", ".", "4", ".", "9">>, <<"1", ".", "1", "0", ".", "0">>,
     <<"2", ".", "0", ".", "0">>, <<"1", ".", "5">>,
     <<"1", ".", "5", ".", "0", "-", "r", "c">>}

\* A build's version is any of them.
CurrentVersions == VersionTexts

\* A tag is a version, bare or with one or two markers in front.
TagNames ==
    VersionTexts \cup {<<"v">> \o v : v \in VersionTexts}
        \cup {<<"v", "v">> \o v : v \in VersionTexts}
        \cup {<<>>, <<"v">>}

SetupAsset ==
    [name |-> <<"Q", "u", "i", "c", "k", "R", "u", "n", "-", "S", "e", "t",
                "u", "p", ".", "e", "x", "e">>,
     browser_download_url |-> <<"u", "1">>]

AssetLists == {<<>>, <<SetupAsset>>}

Releases ==
    [tag_name : TagNames,
     body : {None, Some(<<"n">>)},
     html_url : {<<"h">>},
     assets : AssetLists]

HttpNoReason == <<>>
\* The statuses the release host answers with besides 200, and what reading
\* the text of such an answer gives.
FailureStatuses == {304, 403, 404, 500}
BodyTexts == {Ok(<<"b">>), Ok(<<>>), Err(<<"reset">>)}

Responses ==
    {[kind |-> "client_error", reason |-> <<"tls">>, status |-> 0,
      body |-> Ok(<<>>), json |-> None],
     [kind |-> "send_error", reason |-> <<"timeout">>, status |-> 0,
      body |-> Ok(<<>>), json |-> None],
     [kind |-> "http", reason |-> <<"missing field">>, status |-> 200,
      body |-> Ok(<<"b">>), json |-> None]}
        \cup {[kind |-> "http", reason |-> HttpNoReason, status |-> st,
               body |-> b, json |-> None] :
                    st \in FailureStatuses, b \in BodyTexts}
        \cup {[kind |-> "http", reason |-> HttpNoReason, status |-> 200,
               body |-> Ok(<<"b">>), json |-> Some(r)] : r \in Releases}

InitUpdater ==
    /\ path_var = Unset
    /\ pathext_var = Unset
    /\ fs = NoFiles
    /\ current_version \in CurrentVersions
    /\ call = [op |-> "none", response |-> CHOOSE r \in Responses : TRUE]
    /\ ret = Pending
    /\ trace = <<>>

CheckForUpdate ==
    \E response \in Responses :
        /\ call' = [op |-> "check_for_update_impl", response |-> response]
        /\ ret' = check_for_update_impl(current_version, response)
        /\ trace' = <<>>
        /\ UNCHANGED <<path_var, pathext_var, fs, current_version>>

\* Installer URLs: one that ends in a file name, one that ends in '/'.
UrlToFile == <<"h", "/", "s", ".", "e", "x", "e">>
UrlToDir == <<"h", "/", "d", "/">>
InstallerUrls == {UrlToFile, UrlToDir}

\* The UpdateInfo values download_and_install_impl is called with.
InstallInfos ==
    [available : {TRUE},
     version : {<<"2", ".", "0", ".", "0">>},
     body : {<<>>},
     current_version : {V150},
     release_url : {ReleasesPage},
     installer_url : {None} \cup {Some(u) : u \in InstallerUrls}]

\* What the system can answer at the steps of an installation.
IoAnswers == {Ok(Unit), Err(<<"io">>)}
OsAnswers ==
    [client : IoAnswers, send : IoAnswers, status : {200, 404},
     bytes : IoAnswers, write : IoAnswers, launch : IoAnswers,
     browser : IoAnswers]

\* std::fs::write cannot succeed on a path that names a directory.
WriteAnswers(path) ==
    IF path # <<>> /\ path[Len(path)] \in Separators
    THEN {Err(<<"io">>)}
    ELSE IoAnswers

\* The steps of the installer path in the order the code takes them, and
\* whether the answer to a step is a failure.
InstallSteps == <<"client", "send", "status", "bytes", "write", "launch">>
StepFails(os, k) ==
    IF InstallSteps[k] = "status" THEN ~is_success(os.status)
    ELSE os[InstallSteps[k]].tag = "Err"
StepQuiet(os, k) ==
    IF InstallSteps[k] = "status" THEN os.status = 200
    ELSE os[InstallSteps[k]] = Ok(Unit)

\* The answers given during download_and_install_impl(update_info): a step
\* is answered only when it is reached.
InstallAnswers(update_info) ==
    LET has_url == update_info.installer_url.tag = "Some"
        Reached(os, k) ==
            has_url /\ \A j \in 1..(k - 1) : ~StepFails(os, j)
    IN  {os \in OsAnswers :
            /\ \A k \in 1..6 : ~Reached(os, k) => StepQuiet(os, k)
            /\ Reached(os, 5) =>
                  os.write \in WriteAnswers(
                      join(TempDir,
                           installer_filename(update_info.installer_url.val)))
            /\ Reached(os, 7) => os.browser = Ok(Unit)}

DownloadAndInstall ==
    \E update_info \in InstallInfos :
        \E os \in InstallAnswers(update_info) :
            \E r \in {download_and_install_impl(update_info, os)} :
                /\ call' = [op |-> "download_and_install_impl",
                            update_info |-> update_info, os |-> os]
                /\ ret' = r.ret
                /\ trace' = r.trace
                /\ UNCHANGED <<path_var, pathext_var, fs, current_version>>

NextUpdater == CheckForUpdate \/ DownloadAndInstall

SpecUpdater == InitUpdater /\ [][NextUpdater]_vars

----------------------------------------------------------------------------
(* What the claims speak of, read from the state.                          *)

IsRun == call.op = "run_command"
IsResolve == call.op = "resolve_on_path"

\* The search directories and the extension list the environment gives.
Dirs == IF path_var.set THEN Split(path_var.val, ";") ELSE <<>>
Exts == Split(IF pathext_var.set THEN pathext_var.val ELSE DefaultPathExt, ";")

\* directory/command+extension for the i-th directory, the j-th extension.
Candidate(i, j) == join(Dirs[i], call.input \o Exts[j])
\* directory/command for the i-th directory.
Exact(i) == join(Dirs[i], call.input)

AllBlank(s) == \A i \in 1..Len(s) : s[i] \in {" ", "\t"}

\* The input without its leading and trailing whitespace.
Trimmed ==
    LET s == call.input
        solid == {i \in 1..Len(s) : s[i] \notin {" ", "\t"}}
    IN  IF solid = {} THEN <<>>
        ELSE SubSeq(s, CHOOSE i \in solid : \A k \in solid : i <= k,
                       CHOOSE j \in solid : \A k \in solid : k <= j)

HasSeparator(s) == \E i \in 1..Len(s) : s[i] \in {"\\", "/", ":"}

\* The paths tested with is_file, and those handed to spawn, in order.
Probes == SelectSeq(trace, LAMBDA e : e.ev = "is_file")
Spawns == SelectSeq(trace, LAMBDA e : e.ev = "spawn")
EnvReads == SelectSeq(trace, LAMBDA e : e.ev = "env_var")

IsSome(r, v) == r.tag = "Some" /\ r.val = v
IsErr(r, fmt, arg) == r.tag = "Err" /\ r.msg.fmt = fmt /\ r.msg.arg = arg

----------------------------------------------------------------------------
(* C1: for a bare command without '.', resolve_on_path returns             *)
(* directory/command+extension for the first (directory, extension) pair,  *)
(* directories outer and extensions inner, that is an existing regular     *)
(* file, and None only when every combination fails.                       *)
C1_FirstPairWins ==
    (IsResolve /\ ~(\E k \in 1..Len(call.input) : call.input[k] = ".")) =>
        IF \E i \in DOMAIN Dirs, j \in DOMAIN Exts : is_file(fs, Candidate(i, j))
        THEN \E i \in DOMAIN Dirs, j \in DOMAIN Exts :
                /\ is_file(fs, Candidate(i, j))
                /\ IsSome(ret, Candidate(i, j))
                /\ \A i2 \in DOMAIN Dirs, j2 \in DOMAIN Exts :
                      (i2 < i \/ (i2 = i /\ j2 < j))
                          => ~is_file(fs, Candidate(i2, j2))
        ELSE ret.tag = "None"

\* The spec's example: D1 is exhausted before D2, and only D2/f.BAT exists.
C1_Witness ==
    /\ IsResolve /\ call.input = CmdF
    /\ Dirs = <<DirA, DirB>> /\ Exts = <<ExtExe, ExtBat>>
    /\ \A p \in FsPaths : is_file(fs, p) <=> p = join(DirB, CmdF \o ExtBat)
    /\ IsSome(ret, join(DirB, CmdF \o ExtBat))

(* C2: for a bare command with a '.', resolve_on_path tests only           *)
(* directory/command in each directory in order and returns the first      *)
(* existing regular file; no candidate with an appended extension is       *)
(* tested or returned, and None is returned when no directory holds the    *)
(* exact name, even if directory/command+extension exists.                 *)
C2_ExactNameOnly ==
    (IsResolve /\ (\E k \in 1..Len(call.input) : call.input[k] = ".")) =>
        /\ \A n \in 1..Len(Probes) :
              /\ n <= Len(Dirs)
              /\ Probes[n].arg = Exact(n)
        /\ \A i \in DOMAIN Dirs, j \in DOMAIN Exts :
              /\ \A n \in 1..Len(Probes) : Probes[n].arg # Candidate(i, j)
              /\ ~IsSome(ret, Candidate(i, j))
        /\ IF \E i \in DOMAIN Dirs : is_file(fs, Exact(i))
           THEN \E i \in DOMAIN Dirs :
                   /\ is_file(fs, Exact(i))
                   /\ IsSome(ret, Exact(i))
                   /\ \A i2 \in 1..(i - 1) : ~is_file(fs, Exact(i2))
           ELSE ret.tag = "None"

\* f.BAT is in no directory while A\f.BAT.EXE exists: no match.
C2_Witness ==
    /\ IsResolve /\ call.input = CmdFBat
    /\ \E i \in DOMAIN Dirs : Dirs[i] = DirA
    /\ \E j \in DOMAIN Exts : Exts[j] = ExtExe
    /\ is_file(fs, join(DirA, CmdFBat \o ExtExe))
    /\ Len(Probes) = Len(Dirs)
    /\ ret.tag = "None"

(* C3: is_explicit_path(input) is true exactly when input contains at     *)
(* least one of '\', '/' and ':'; every other input is a bare command.     *)
C3_ExplicitIffSeparator ==
    (call.op = "is_explicit_path" /\ ret.tag = "Returned") =>
        (ret.val <=> HasSeparator(call.args[1]))

\* "f:." has the volume separator only, and is an explicit path.
C3_Witness ==
    /\ call.op = "is_explicit_path" /\ call.args[1] = <<"f", ":", ".">>
    /\ ret.tag = "Returned" /\ ret.val = TRUE

(* C4 as claimed: run_command on an input that is empty after trimming     *)
(* returns Err("empty input") before any classification, file test,        *)
(* search-path lookup or spawn.                                            *)
C4_AsClaimed ==
    (IsRun /\ AllBlank(call.input)) =>
        /\ IsErr(ret, "empty input", <<>>)
        /\ trace = <<>>

(* C4, amended: run_command on an input that is empty after trimming       *)
(* returns Err("Please enter a command") before any classification, file   *)
(* test, search-path lookup or spawn; classification and resolution only   *)
(* ever receive a non-empty, trimmed command.                              *)
C4_EmptyRejected ==
    IsRun =>
        /\ AllBlank(call.input) =>
              /\ IsErr(ret, "Please enter a command", <<>>)
              /\ trace = <<>>
        /\ \A n \in 1..Len(trace) :
              /\ trace[n].arg # <<>>
              /\ trace[n].ev = "is_explicit_path" => trace[n].arg = Trimmed

C4_Witness ==
    /\ IsRun /\ call.input = <<" ">>
    /\ ret.tag = "Err" /\ trace = <<>>

(* C5: for an input classified as an explicit path, the only path tested   *)
(* for existence and the only path passed to the launcher is the trimmed   *)
(* input itself: no search directory is prefixed, no extension appended,   *)
(* and the search path is not read.                                        *)
C5_ExplicitAsGiven ==
    (IsRun /\ HasSeparator(call.input)) =>
        /\ Len(Probes) = 1 /\ Probes[1].arg = Trimmed
        /\ \A n \in 1..Len(Spawns) : Spawns[n].arg = Trimmed
        /\ EnvReads = <<>>

\* "A\f.EXE " names a file once trimmed, and that file is what is spawned.
C5_Witness ==
    /\ IsRun /\ call.input = join(DirA, CmdF \o ExtExe) \o <<" ">>
    /\ Len(Spawns) = 1 /\ Spawns[1].arg = join(DirA, CmdF \o ExtExe)

(* C6 as claimed: an explicit path that is not an existing regular file    *)
(* yields Err("file not found: <input>").                                  *)
C6_AsClaimed ==
    (IsRun /\ HasSeparator(call.input) /\ ~is_file(fs, Trimmed)) =>
        IsErr(ret, "file not found: {}", Trimmed)

(* C6, amended: whenever resolution fails in run_command no process is     *)
(* spawned and an error is returned: an explicit path that is not an       *)
(* existing regular file yields Err("File not found: <input>"), a bare     *)
(* command with no match on the search path yields Err("'<input>' is not   *)
(* recognized as a command or program"), <input> being the trimmed input;  *)
(* spawn_process is reached only with a path whose is-regular-file check   *)
(* succeeded in the same invocation.                                       *)
C6_NoSpawnUnresolved ==
    (IsRun /\ ~AllBlank(call.input)) =>
        /\ (HasSeparator(call.input) /\ ~is_file(fs, Trimmed)) =>
              /\ IsErr(ret, "File not found: {}", Trimmed)
              /\ Spawns = <<>>
        /\ (~HasSeparator(call.input)
                /\ \A n \in 1..Len(Probes) : ~is_file(fs, Probes[n].arg)) =>
              /\ IsErr(ret, "'{}' is not recognized as a command or program",
                       Trimmed)
              /\ Spawns = <<>>
        /\ \A n \in 1..Len(trace) :
              trace[n].ev = "spawn" =>
                  /\ is_file(fs, trace[n].arg)
                  /\ \E m \in 1..(n - 1) :
                        trace[m] = Event("is_file", trace[n].arg)

\* An explicit path that names a directory: not found, nothing spawned.
C6_Witness ==
    /\ IsRun /\ Trimmed = join(DirA, CmdF \o ExtExe)
    /\ fs[join(DirA, CmdF \o ExtExe)] = "dir"
    /\ ret.tag = "Err" /\ Spawns = <<>>

(* C7 as claimed: a failed spawn returns                                   *)
(* Err("failed to spawn process: <reason>").                               *)
C7_AsClaimed ==
    (IsRun /\ Spawns # <<>> /\ call.outcome.tag = "Err") =>
        IsErr(ret, "failed to spawn process: {}", call.outcome.msg)

(* C7, amended: a failure to start the resolved executable is never        *)
(* swallowed: run_command returns Ok if and only if resolution succeeded   *)
(* and the single spawn attempt succeeded; when the spawn fails it returns *)
(* Err("Failed to spawn process: <reason>") carrying the underlying        *)
(* reason, and the spawn is attempted at most once per invocation.         *)
C7_SpawnErrorSurfaces ==
    IsRun =>
        /\ Len(Spawns) <= 1
        /\ ret.tag = "Ok" <=>
              /\ \E n \in 1..Len(Probes) : is_file(fs, Probes[n].arg)
              /\ Len(Spawns) = 1
              /\ call.outcome.tag = "Ok"
        /\ (Spawns # <<>> /\ call.outcome.tag = "Err") =>
              IsErr(ret, "Failed to spawn process: {}", call.outcome.msg)

\* A bare command that resolves, and whose spawn the system refuses.
C7_Witness ==
    /\ IsRun /\ call.input = CmdF
    /\ Len(Spawns) = 1
    /\ call.outcome = Err(<<"Access is denied.">>)
    /\ ret.tag = "Err"

----------------------------------------------------------------------------
(* Versions, as the claims speak of them.                                  *)

\* The positions of the dots of s, and its three components when it has
\* exactly two dots.
DotsOf(s) == {i \in 1..Len(s) : s[i] = "."}
HasThreeParts(s) == Cardinality(DotsOf(s)) = 2
PartOf(s, k) ==
    LET p == CHOOSE i \in DotsOf(s) : \A j \in DotsOf(s) : i <= j
        q == CHOOSE i \in DotsOf(s) : \A j \in DotsOf(s) : j <= i
    IN  CASE k = 1 -> SubSeq(s, 1, p - 1)
          [] k = 2 -> SubSeq(s, p + 1, q - 1)
          [] k = 3 -> SubSeq(s, q + 1, Len(s))

AllDigits(c) == c # <<>> /\ \A i \in 1..Len(c) : c[i] \in Digits

\* The digits of c from its first non-zero digit on (its last digit, when
\* all are zero).
Significant(c) ==
    LET from == IF \E i \in 1..Len(c) : c[i] # "0"
                THEN CHOOSE i \in 1..Len(c) :
                        c[i] # "0" /\ \A k \in 1..(i - 1) : c[k] = "0"
                ELSE Len(c)
    IN  SubSeq(c, from, Len(c))

\* The number a short digit string writes.
RECURSIVE DecValue(_)
DecValue(c) ==
    IF c = <<>> THEN 0
    ELSE 10 * DecValue(SubSeq(c, 1, Len(c) - 1)) + DigitVal[c[Len(c)]]

\* A numeral of at most ten digits as the pair (upper five, lower five).
UpperFive(n) == DecValue(SubSeq(n, 1, Len(n) - 5))
LowerFive(n) ==
    DecValue(SubSeq(n, IF Len(n) > 5 THEN Len(n) - 4 ELSE 1, Len(n)))
Above(a, b) ==
    \/ UpperFive(a) > UpperFive(b)
    \/ UpperFive(a) = UpperFive(b) /\ LowerFive(a) > LowerFive(b)

\* The digits write a number of at most 4294967295.
FitsU32(c) ==
    /\ Len(Significant(c)) <= 10
    /\ \/ UpperFive(Significant(c)) < 42949
       \/ /\ UpperFive(Significant(c)) = 42949
          /\ LowerFive(Significant(c)) <= 67295

\* A component the code accepts: digits, after at most one '+', that fit.
Unsigned(c) == IF c # <<>> /\ c[1] = "+" THEN SubSeq(c, 2, Len(c)) ELSE c
AcceptedPart(c) == AllDigits(Unsigned(c)) /\ FitsU32(Unsigned(c))

\* The order of two parsed versions: major first, then minor, then patch.
Lexicographic(x, y) ==
    IF \E k \in 1..3 : Above(x[k], y[k]) /\ \A j \in 1..(k - 1) : x[j] = y[j]
    THEN 1
    ELSE IF \E k \in 1..3 :
              Above(y[k], x[k]) /\ \A j \in 1..(k - 1) : x[j] = y[j]
    THEN -1
    ELSE 0

(* C8 as claimed: parse_semver(s) returns a triple exactly when s is three *)
(* dot-separated components each a non-negative integer, whatever its      *)
(* size, and a component carrying a sign is not accepted.                  *)
C8_AsClaimed ==
    (call.op = "parse_semver" /\ ret.tag = "Returned") =>
        (ret.val.tag = "Some" <=>
            /\ HasThreeParts(call.args[1])
            /\ \A k \in 1..3 : AllDigits(PartOf(call.args[1], k)))

(* C8, amended: parse_semver(s) returns (major, minor, patch) exactly when *)
(* s consists of exactly three dot-separated components each of which is   *)
(* one or more decimal digits, optionally preceded by a single '+', with   *)
(* a value of at most 4294967295; it returns None for every other shape:   *)
(* fewer or more components, an empty or non-numeric component, leading    *)
(* or trailing dots, a component with '-', a component above 4294967295.   *)
C8_ParsesU32Triples ==
    (call.op = "parse_semver" /\ ret.tag = "Returned") =>
        IF /\ HasThreeParts(call.args[1])
           /\ \A k \in 1..3 : AcceptedPart(PartOf(call.args[1], k))
        THEN /\ ret.val.tag = "Some"
             /\ \A k \in 1..3 :
                   ret.val.val[k] =
                       Significant(Unsigned(PartOf(call.args[1], k)))
        ELSE ret.val.tag = "None"

\* "+7.07.4294967295" parses as (7, 7, 4294967295).
C8_Witness ==
    /\ call.op = "parse_semver"
    /\ call.args[1] = JoinWith(<<<<"+", "7">>, <<"0", "7">>, U32_MAX>>, ".")
    /\ ret = Returned(Some(<<<<"7">>, <<"7">>, U32_MAX>>))

(* C9: compare_versions(a, b) is the lexicographic order on (major,        *)
(* minor, patch), major first, then minor, then patch: 1, -1 or 0 when     *)
(* both strings parse, and 0 whenever either does not parse.               *)
C9_LexicographicOrder ==
    (call.op = "compare_versions" /\ ret.tag = "Returned") =>
        LET pa == parse_semver(call.args[1])
            pb == parse_semver(call.args[2])
        IN  IF pa.tag = "None" \/ pb.tag = "None" THEN ret.val = 0
            ELSE ret.val = Lexicographic(pa.val, pb.val)

\* 1.10.1 against 1.2.4294967295: the minor decides, as a number.
C9_Witness ==
    /\ call.op = "compare_versions"
    /\ call.args[1] = <<"1", ".", "1", "0", ".", "1">>
    /\ call.args[2] = <<"1", ".", "2", ".">> \o U32_MAX
    /\ ret = Returned(1)

\* The version derived from the release tag of the last check.
DerivedVersion ==
    LET tag == call.response.json.val.tag_name
    IN  IF tag # <<>> /\ tag[1] = "v" THEN SubSeq(tag, 2, Len(tag)) ELSE tag

HasRelease ==
    /\ call.op = "check_for_update_impl"
    /\ call.response.kind = "http"
    /\ call.response.status = 200
    /\ call.response.json.tag = "Some"

(* C10: check_for_update_impl reports available = true if and only if the  *)
(* version derived from the release tag and the current version both       *)
(* parse and the derived version is strictly greater; a release whose tag  *)
(* is malformed, equal or older yields available = false, never an error.  *)
C10_AvailableIffNewer ==
    call.op = "check_for_update_impl" =>
        /\ HasRelease => ret.tag = "Ok"
        /\ (ret.tag = "Ok" /\ ret.val.available) <=>
              /\ HasRelease
              /\ parse_semver(DerivedVersion).tag = "Some"
              /\ parse_semver(current_version).tag = "Some"
              /\ Lexicographic(parse_semver(DerivedVersion).val,
                               parse_semver(current_version).val) = 1

\* Release v2.0.0 seen from build 1.5.0.
C10_Witness ==
    /\ HasRelease
    /\ call.response.json.val.tag_name = <<"v", "2", ".", "0", ".", "0">>
    /\ current_version = V150
    /\ ret.tag = "Ok" /\ ret.val.available

----------------------------------------------------------------------------
\* Two characters that are the same letter, whatever their case.
SameLetter(a, b) ==
    a = b \/ \E k \in 1..26 : {a, b} = {UpperCase[k], LowerCase[k]}

\* The name contains the word, or ends with it, case not regarded.
Mentions(name, word) ==
    \E i \in 1..(Len(name) - Len(word) + 1) :
        \A k \in 1..Len(word) : SameLetter(name[i + k - 1], word[k])
Suffixed(name, word) ==
    /\ Len(word) <= Len(name)
    /\ \A k \in 1..Len(word) :
          SameLetter(name[Len(name) - Len(word) + k], word[k])

\* The rule of the fallback pass, and that of the first pass.
FallbackRule(asset) ==
    Suffixed(asset.name, StrExe) /\ ~Mentions(asset.name, StrPortable)
PreferredRule(asset) ==
    Mentions(asset.name, StrQuickrun) /\ FallbackRule(asset)

Least(S) == CHOOSE i \in S : \A k \in S : i <= k

(* C11: find_installer_asset returns the URL of the first asset, in list   *)
(* order, whose name (case not regarded) contains "quickrun", ends with    *)
(* ".exe" and does not contain "portable", even after an earlier asset     *)
(* that passes only the fallback rule; failing that, the URL of the first  *)
(* asset that ends with ".exe" and does not contain "portable"; failing    *)
(* that, None. The URL returned is never that of an asset whose name       *)
(* contains "portable" or does not end with ".exe".                        *)
C11_TwoPassFirstMatch ==
    (call.op = "find_installer_asset" /\ ret.tag = "Returned") =>
        LET assets == call.args[1]
            preferred == {i \in DOMAIN assets : PreferredRule(assets[i])}
            fallback == {i \in DOMAIN assets : FallbackRule(assets[i])}
            url == ret.val
        IN  /\ preferred # {} =>
                  IsSome(url, assets[Least(preferred)].browser_download_url)
            /\ (preferred = {} /\ fallback # {}) =>
                  IsSome(url, assets[Least(fallback)].browser_download_url)
            /\ fallback = {} => url.tag = "None"
            /\ url.tag = "Some" =>
                  \A i \in DOMAIN assets :
                      assets[i].browser_download_url = url.val
                          => FallbackRule(assets[i])

\* An installer without the product name, then the portable build, then
\* the product's installer: the third is chosen.
C11_Witness ==
    /\ call.op = "find_installer_asset"
    /\ Len(call.args[1]) = 3
    /\ call.args[1][1].name = NameTool
    /\ call.args[1][2].name = NamePortable
    /\ call.args[1][3].name = NameSetup
    /\ ret.tag = "Returned"
    /\ IsSome(ret.val, UrlOf(3))

\* The last check was answered with a status that is not a success.
NotSuccess ==
    /\ call.op = "check_for_update_impl"
    /\ call.response.kind = "http"
    /\ call.response.status \notin 200..299

\* The text read from the answer, empty when it could not be read.
BodyRead ==
    IF call.response.body.tag = "Ok" THEN call.response.body.val ELSE <<>>

(* C12: a release fetch answered with HTTP 404 makes check_for_update_impl *)
(* return Ok with available = false, version = the current version, empty  *)
(* notes and no installer URL; any other status that is not a success      *)
(* makes it return Err carrying the status and the body read, and no       *)
(* UpdateInfo.                                                             *)
C12_NotFoundIsNoRelease ==
    NotSuccess =>
        IF call.response.status = 404
        THEN /\ ret.tag = "Ok"
             /\ ~ret.val.available
             /\ ret.val.version = current_version
             /\ ret.val.body = <<>>
             /\ ret.val.installer_url.tag = "None"
        ELSE /\ ret.tag = "Err"
             /\ ret.msg.fmt = "GitHub API returned error {}: {}"
             /\ ret.msg.arg = <<call.response.status, BodyRead>>

\* 404 with a body, seen from build 1.5.0.
C12_Witness ==
    /\ NotSuccess
    /\ call.response.status = 404
    /\ call.response.body = Ok(<<"b">>)
    /\ current_version = V150
    /\ ret.tag = "Ok" /\ ~ret.val.available /\ ret.val.version = V150

----------------------------------------------------------------------------
IsInstall == call.op = "download_and_install_impl"

\* How many times the last call did the thing named ev.
Count(ev) == Len(SelectSeq(trace, LAMBDA e : e.ev = ev))

\* The installer URL was there and every step on it was answered well.
InstallerWorked ==
    /\ call.update_info.installer_url.tag = "Some"
    /\ call.os.client.tag = "Ok" /\ call.os.send.tag = "Ok"
    /\ call.os.status \in 200..299
    /\ call.os.bytes.tag = "Ok" /\ call.os.write.tag = "Ok"
    /\ call.os.launch.tag = "Ok"

(* C13: download_and_install_impl tries the installer, then the browser,   *)
(* each at most once. With an installer URL and download, write and launch *)
(* all succeeding it returns Ok and the browser is not opened; without a   *)
(* URL, or when one of those steps fails, the failure is not returned and  *)
(* the release URL is opened exactly once, as the last thing done; the     *)
(* call returns Err only when opening the browser fails too; nothing is    *)
(* done twice.                                                             *)
C13_InstallerThenBrowser ==
    IsInstall =>
        /\ InstallerWorked => (ret.tag = "Ok" /\ Count("open_url") = 0)
        /\ ~InstallerWorked =>
              /\ Count("open_url") = 1
              /\ trace[Len(trace)] =
                    Event("open_url", call.update_info.release_url)
              /\ ret.tag = "Err" <=> call.os.browser.tag = "Err"
              /\ ret.tag = "Err" =>
                    ret.msg = Format("Failed to open browser: {}",
                                     call.os.browser.msg)
        /\ \A ev \in {"http_get", "http_body", "fs_write", "launch",
                       "open_url"} : Count(ev) <= 1
        /\ call.update_info.installer_url.tag = "None" => Len(trace) = 1

\* The download is written to disk, the write fails, the release page is
\* opened and the call returns Ok.
C13_Witness ==
    /\ IsInstall
    /\ call.update_info.installer_url = Some(UrlToFile)
    /\ call.os.bytes.tag = "Ok"
    /\ call.os.write.tag = "Err"
    /\ call.os.browser.tag = "Ok"
    /\ Count("fs_write") = 1 /\ Count("launch") = 0 /\ Count("open_url") = 1
    /\ ret.tag = "Ok"

\* The text after the last '/' of the URL is empty.
LastSegmentEmpty(url) == url = <<>> \/ url[Len(url)] = "/"

(* C14: when the last '/'-separated segment of the installer URL is empty, *)
(* the download is written to "quickrun-setup.exe" in the temporary        *)
(* directory; the file name of the write is never empty.                   *)
C14_AsClaimed ==
    (IsInstall /\ call.update_info.installer_url.tag = "Some") =>
        \A i \in DOMAIN trace :
            trace[i].ev = "fs_write" =>
                /\ trace[i].arg # join(TempDir, <<>>)
                /\ LastSegmentEmpty(call.update_info.installer_url.val) =>
                      trace[i].arg = join(TempDir, DefaultInstallerName)

----------------------------------------------------------------------------
\* The string is three components that parse_semver accepts.
Parseable(s) ==
    HasThreeParts(s) /\ \A k \in 1..3 : AcceptedPart(PartOf(s, k))

TagV150 == <<"v">> \o V150
TagVV150 == <<"v", "v">> \o V150

(* C15: the version derived from a release tag is the tag without one      *)
(* leading 'v' when it has one, and the tag itself otherwise: "v1.5.0" and *)
(* "1.5.0" both derive "1.5.0"; "vv1.5.0" derives "v1.5.0", which does not *)
(* parse and is reported with available = false.                           *)
C15_OneMarkerStripped ==
    HasRelease =>
        LET tag == call.response.json.val.tag_name
        IN  /\ ret.tag = "Ok"
            /\ IF tag # <<>> /\ tag[1] = "v"
               THEN <<"v">> \o ret.val.version = tag
               ELSE ret.val.version = tag
            /\ tag \in {V150, TagV150} => ret.val.version = V150
            /\ tag = TagVV150 => ret.val.version = TagV150
            /\ ~Parseable(ret.val.version) => ~ret.val.available

\* Release vv1.5.0 seen from build 1.4.9.
C15_Witness ==
    /\ HasRelease
    /\ call.response.json.val.tag_name = TagVV150
    /\ current_version = <<"1", ".", "4", ".", "9">>
    /\ ret.tag = "Ok"
    /\ ret.val.version = TagV150
    /\ ~Parseable(ret.val.version)
    /\ ~ret.val.available

----------------------------------------------------------------------------
(* C16: when PATH is unset or empty, resolve_on_path returns None for      *)
(* every bare command and tests no filesystem location, the current        *)
(* directory included.                                                     *)
C16_AsClaimed ==
    (IsResolve /\ (~path_var.set \/ path_var.val = <<>>)) =>
        (ret.tag = "None" /\ Probes = <<>>)

============================================================================
